---------------------------- MODULE Spec2Model ----------------------------
(***************************************************************************)
(* Verification model of the two scanner components of web-safe-checker:   *)
(*   SecurityScanner        (src/src/components/SecurityScanner.tsx)       *)
(*   WebsiteSecurityChecker (src/src/components/WebsiteSecurityChecker.tsx)*)
(*                                                                         *)
(* JavaScript strings are modelled as sequences of one-character strings,  *)
(* so that startsWith, trim, includes, replace and URL parsing are         *)
(* computed character by character.  Titles, variants and status tags,     *)
(* which the code only compares, are plain strings.                        *)
(*                                                                         *)
(* The components share no state; a behaviour follows one mounted          *)
(* instance of either component.  A step is one run of the event loop:     *)
(* an event handler up to its first await, a timer or network completion,  *)
(* or the continuation a completion resumes, which runs before any other   *)
(* event.                                                                  *)
(***************************************************************************)
EXTENDS Integers, Sequences, FiniteSets, TLC

(***************************************************************************)
(* String literals of the source, and the texts a user may type.           *)
(***************************************************************************)
\* 'http://'
HttpPrefix ==
    <<"h","t","t","p",":","/","/">>
\* 'https://'
HttpsPrefix ==
    <<"h","t","t","p","s",":","/","/">>
\* 'Please enter a valid URL'
InvalidUrlMessage ==
    <<"P","l","e","a","s","e"," ","e","n","t","e","r"," ","a"," ","v","a","l","i","d"," ","U","R","L">>
\* 'Please enter a website URL to scan'
UrlRequiredScanText ==
    <<"P","l","e","a","s","e"," ","e","n","t","e","r"," ","a"," ","w","e","b","s","i","t","e"," ","U","R","L"," ","t","o"," ","s","c","a","n">>
\* 'Please enter a website URL to check'
UrlRequiredCheckText ==
    <<"P","l","e","a","s","e"," ","e","n","t","e","r"," ","a"," ","w","e","b","s","i","t","e"," ","U","R","L"," ","t","o"," ","c","h","e","c","k">>
\* 'Security scan completed for '
ScanCompletedPrefix ==
    <<"S","e","c","u","r","i","t","y"," ","s","c","a","n"," ","c","o","m","p","l","e","t","e","d"," ","f","o","r"," ">>
\* 'Failed to scan website'
ScanFallbackText ==
    <<"F","a","i","l","e","d"," ","t","o"," ","s","c","a","n"," ","w","e","b","s","i","t","e">>
\* 'Failed to check website safety'
CheckFallbackText ==
    <<"F","a","i","l","e","d"," ","t","o"," ","c","h","e","c","k"," ","w","e","b","s","i","t","e"," ","s","a","f","e","t","y">>
\* 'Website is safe to visit'
SafeToVisitText ==
    <<"W","e","b","s","i","t","e"," ","i","s"," ","s","a","f","e"," ","t","o"," ","v","i","s","i","t">>
\* 'Potential threats detected'
ThreatsDetectedText ==
    <<"P","o","t","e","n","t","i","a","l"," ","t","h","r","e","a","t","s"," ","d","e","t","e","c","t","e","d">>
\* 'Unable to connect to security service. This may be due to CORS restrictions.'
CorsHintText ==
    <<"U","n","a","b","l","e"," ","t","o"," ","c","o","n","n","e","c","t"," ","t","o"," ","s","e","c","u","r","i","t","y"," ","s","e","r","v","i","c","e","."," ","T","h","i","s"," ","m","a","y"," ","b","e"," ","d","u","e"," ","t","o"," ","C","O","R","S"," ","r","e","s","t","r","i","c","t","i","o","n","s",".">>
\* 'API Error: '
ApiErrorPrefix ==
    <<"A","P","I"," ","E","r","r","o","r",":"," ">>
\* 'fetch'
FetchWord ==
    <<"f","e","t","c","h">>
\* 'Failed to fetch'
FailedToFetch ==
    <<"F","a","i","l","e","d"," ","t","o"," ","f","e","t","c","h">>
\* 'Load failed'
LoadFailed ==
    <<"L","o","a","d"," ","f","a","i","l","e","d">>
\* 'Unexpected end of JSON input'
JsonSyntaxMessage ==
    <<"U","n","e","x","p","e","c","t","e","d"," ","e","n","d"," ","o","f"," ","J","S","O","N"," ","i","n","p","u","t">>
\* 'google.com'
GoogleCom ==
    <<"g","o","o","g","l","e",".","c","o","m">>
\* 'github.com'
GithubCom ==
    <<"g","i","t","h","u","b",".","c","o","m">>
\* 'stackoverflow.com'
StackoverflowCom ==
    <<"s","t","a","c","k","o","v","e","r","f","l","o","w",".","c","o","m">>
\* 'MALWARE'
MALWARE ==
    <<"M","A","L","W","A","R","E">>
\* 'POTENTIALLY_HARMFUL_APPLICATION'
POTENTIALLY_HARMFUL_APPLICATION ==
    <<"P","O","T","E","N","T","I","A","L","L","Y","_","H","A","R","M","F","U","L","_","A","P","P","L","I","C","A","T","I","O","N">>
\* ''
In_empty ==
    <<>>
\* ' '
In_blank ==
    <<" ">>
\* 'example.com'
In_example ==
    <<"e","x","a","m","p","l","e",".","c","o","m">>
\* ' example.com '
In_padded ==
    <<" ","e","x","a","m","p","l","e",".","c","o","m"," ">>
\* 'not a url'
In_notaurl ==
    <<"n","o","t"," ","a"," ","u","r","l">>
\* 'http://example.com'
In_http ==
    <<"h","t","t","p",":","/","/","e","x","a","m","p","l","e",".","c","o","m">>
\* 'https://google.com/a'
In_google ==
    <<"h","t","t","p","s",":","/","/","g","o","o","g","l","e",".","c","o","m","/","a">>
\* 'Example.COM'
In_upper ==
    <<"E","x","a","m","p","l","e",".","C","O","M">>
\* 'HTTP://a.co'
In_upperScheme ==
    <<"H","T","T","P",":","/","/","a",".","c","o">>
\* 'https://'
In_schemeOnly ==
    <<"h","t","t","p","s",":","/","/">>
\* 'http://a.co:80'
In_port80 ==
    <<"h","t","t","p",":","/","/","a",".","c","o",":","8","0">>
\* 'a.co:x'
In_badPort ==
    <<"a",".","c","o",":","x">>
\* 'No threats detected'
NoThreatsText ==
    <<"N","o"," ","t","h","r","e","a","t","s"," ","d","e","t","e","c","t","e","d">>
\* 'Potential security threats found'
ThreatsFoundText ==
    <<"P","o","t","e","n","t","i","a","l"," ","s","e","c","u","r","i","t","y"," ","t","h","r","e","a","t","s"," ","f","o","u","n","d">>
\* 'SSL certificate grade: '
SslDetailsPrefix ==
    <<"S","S","L"," ","c","e","r","t","i","f","i","c","a","t","e"," ","g","r","a","d","e",":"," ">>

(***************************************************************************)
(* Bounds of the model.                                                    *)
(***************************************************************************)
\* longest match list of a Safe Browsing response
MaxMatches == 2
\* handler invocations that may be suspended at an await at the same time
MaxInFlight == 2

(***************************************************************************)
(* JavaScript values.                                                      *)
(***************************************************************************)
\* null; a record, so that it compares with every state value
Null == [type |-> "null"]

\* undefined
Undefined == [type |-> "undefined"]

\* the texts the user can put into the input field
Inputs ==
    { In_empty, In_blank, In_example, In_padded, In_notaurl, In_http,
      In_google, In_upper, In_upperScheme, In_schemeOnly, In_port80,
      In_badPort }

(***************************************************************************)
(* String primitives.                                                      *)
(***************************************************************************)
\* String.prototype.startsWith
StartsWith(s, p) ==
    /\ Len(p) <= Len(s)
    /\ SubSeq(s, 1, Len(p)) = p

\* String.prototype.includes
Includes(s, sub) ==
    \E i \in 1..(Len(s) - Len(sub) + 1) : SubSeq(s, i, i + Len(sub) - 1) = sub

IsSpace(c) == c = " "

RECURSIVE TrimStart(_)
TrimStart(s) ==
    IF s # <<>> /\ IsSpace(Head(s)) THEN TrimStart(Tail(s)) ELSE s

RECURSIVE TrimEnd(_)
TrimEnd(s) ==
    IF s # <<>> /\ IsSpace(s[Len(s)]) THEN TrimEnd(SubSeq(s, 1, Len(s) - 1)) ELSE s

\* String.prototype.trim
Trim(s) == TrimEnd(TrimStart(s))

UpperLetters ==
    <<"A","B","C","D","E","F","G","H","I","J","K","L","M",
      "N","O","P","Q","R","S","T","U","V","W","X","Y","Z">>

LowerLetters ==
    <<"a","b","c","d","e","f","g","h","i","j","k","l","m",
      "n","o","p","q","r","s","t","u","v","w","x","y","z">>

DigitChars == <<"0","1","2","3","4","5","6","7","8","9">>

\* ASCII lower-casing of one character
ToLowerChar(c) ==
    IF \E i \in 1..26 : UpperLetters[i] = c
    THEN LowerLetters[CHOOSE i \in 1..26 : UpperLetters[i] = c]
    ELSE c

ToLower(s) == [i \in 1..Len(s) |-> ToLowerChar(s[i])]

IsDigit(c) == \E i \in 1..10 : DigitChars[i] = c

DigitValue(c) == (CHOOSE i \in 1..10 : DigitChars[i] = c) - 1

\* value of a string of decimal digits
RECURSIVE DecimalValue(_)
DecimalValue(s) ==
    IF s = <<>> THEN 0
    ELSE 10 * DecimalValue(SubSeq(s, 1, Len(s) - 1)) + DigitValue(s[Len(s)])

\* decimal digits of a natural number (template-literal / URL serialisation)
RECURSIVE Digits(_)
Digits(n) ==
    IF n < 10 THEN <<DigitChars[n + 1]>>
    ELSE Digits(n \div 10) \o <<DigitChars[(n % 10) + 1]>>

(***************************************************************************)
(* new URL(input) for inputs that start with "http://" or "https://",      *)
(* which is all validateUrl ever passes.  The fragment of the WHATWG       *)
(* parser covered: scheme, any run of slashes before the authority,        *)
(* host up to the first ':' or '/', optional decimal port, path kept as    *)
(* written.  Inputs hold no '@', '?', '#', '\', '%', '[' and no dot        *)
(* segments, and host names hold no digits.                                *)
(***************************************************************************)
ParseFailure == [ok |-> FALSE]

\* index of the first character of s satisfying one of the stop characters, or Len(s)+1
FirstIndexOf(s, stops) ==
    IF \E i \in 1..Len(s) : s[i] \in stops
    THEN CHOOSE i \in 1..Len(s) : s[i] \in stops /\ \A j \in 1..(i - 1) : s[j] \notin stops
    ELSE Len(s) + 1

RECURSIVE SkipSlashes(_)
SkipSlashes(s) ==
    IF s # <<>> /\ Head(s) = "/" THEN SkipSlashes(Tail(s)) ELSE s

\* code points that may not occur in a host name
ForbiddenHostChars == {" ", "/", ":"}

DefaultPort(scheme) == IF scheme = <<"h","t","t","p">> THEN 80 ELSE 443

MaxPort == 65535

ParseURL(input) ==
    LET scheme    == IF StartsWith(input, HttpsPrefix)
                     THEN <<"h","t","t","p","s">> ELSE <<"h","t","t","p">>
        afterCol  == SubSeq(input, Len(scheme) + 2, Len(input))
        rest      == SkipSlashes(afterCol)
        authEnd   == FirstIndexOf(rest, {"/"})
        authority == SubSeq(rest, 1, authEnd - 1)
        path      == SubSeq(rest, authEnd, Len(rest))
        hostEnd   == FirstIndexOf(authority, {":"})
        host      == SubSeq(authority, 1, hostEnd - 1)
        portStr   == SubSeq(authority, hostEnd + 1, Len(authority))
    IN  IF host = <<>> THEN ParseFailure
        ELSE IF \E i \in 1..Len(host) : host[i] \in ForbiddenHostChars THEN ParseFailure
        ELSE IF \E i \in 1..Len(portStr) : ~IsDigit(portStr[i]) THEN ParseFailure
        ELSE IF portStr # <<>> /\ DecimalValue(portStr) > MaxPort THEN ParseFailure
        ELSE [ok       |-> TRUE,
              protocol |-> scheme,
              hostname |-> ToLower(host),
              port     |-> IF portStr = <<>> \/ DecimalValue(portStr) = DefaultPort(scheme)
                           THEN <<>> ELSE Digits(DecimalValue(portStr)),
              pathname |-> IF path = <<>> THEN <<"/">> ELSE path]

\* URL.prototype.href
Href(u) ==
    u.protocol \o <<":","/","/">> \o u.hostname
      \o (IF u.port = <<>> THEN <<>> ELSE <<":">> \o u.port) \o u.pathname

(***************************************************************************)
(* validateUrl of the two components.  A thrown Error is the record        *)
(* [threw |-> TRUE, error |-> ...]; a return is [threw |-> FALSE, ...].    *)
(***************************************************************************)
Error(name, message) == [name |-> name, message |-> message]

\* error instanceof Error
InstanceOfError(error) == error.name \in {"Error", "TypeError", "SyntaxError"}

\* faulty variant of the definition after it: only "https://" counts as a scheme
AddProtocolHttpsOnly(inputUrl) ==
    IF ~StartsWith(inputUrl, HttpsPrefix)
    THEN HttpsPrefix \o inputUrl
    ELSE inputUrl

\* the scheme test and the prefixing of validateUrl
AddProtocol(inputUrl) ==
    IF ~StartsWith(inputUrl, HttpPrefix) /\ ~StartsWith(inputUrl, HttpsPrefix)
    THEN HttpsPrefix \o inputUrl
    ELSE inputUrl

\* faulty variant of the definition after it: the catch returns the input
ScannerValidateUrlLenient(inputUrl) ==
    LET urlObj == ParseURL(AddProtocol(inputUrl))
    IN  IF urlObj.ok
        THEN [threw |-> FALSE, value |-> urlObj.hostname]
        ELSE [threw |-> FALSE, value |-> inputUrl]

\* validateUrl of SecurityScanner: the hostname, or the thrown Error
ScannerValidateUrl(inputUrl) ==
    LET urlObj == ParseURL(AddProtocol(inputUrl))
    IN  IF urlObj.ok
        THEN [threw |-> FALSE, value |-> urlObj.hostname]
        ELSE [threw |-> TRUE, error |-> Error("Error", InvalidUrlMessage)]

\* validateUrl of WebsiteSecurityChecker: the href, or the thrown Error
CheckerValidateUrl(inputUrl) ==
    LET urlObj == ParseURL(AddProtocol(inputUrl))
    IN  IF urlObj.ok
        THEN [threw |-> FALSE, value |-> Href(urlObj)]
        ELSE [threw |-> TRUE, error |-> Error("Error", InvalidUrlMessage)]

(***************************************************************************)
(* State.                                                                  *)
(***************************************************************************)
VARIABLES
    mounted,         \* the component the page renders
    url,             \* SecurityScanner: text of the input field
    isScanning,      \* SecurityScanner: scanning flag
    results,         \* SecurityScanner: Null or [safeBrowsing, sslGrade]
    pendingScans,    \* SecurityScanner: handleScan invocations suspended at Promise.all
    scannerCleared,  \* SecurityScanner: the results value the latest setResults(null) replaced
    checkerUrl,      \* WebsiteSecurityChecker: text of the input field
    isChecking,      \* WebsiteSecurityChecker: checking flag
    result,          \* WebsiteSecurityChecker: Null or [safe] or [safe, threats]
    pendingChecks,   \* WebsiteSecurityChecker: checkSafety invocations suspended at an await
    checkerCleared,  \* WebsiteSecurityChecker: the result value the latest setResult(null) replaced
    consoleError,    \* WebsiteSecurityChecker: argument of the latest console.error
    toasts           \* toast() calls made by the latest step, in call order

scannerVars == <<url, isScanning, results, pendingScans, scannerCleared>>

checkerVars == <<checkerUrl, isChecking, result, pendingChecks, checkerCleared, consoleError>>

vars == <<mounted, scannerVars, checkerVars, toasts>>

Components == {"SecurityScanner", "WebsiteSecurityChecker"}

Toast(title, description, variant) ==
    [title |-> title, description |-> description, variant |-> variant]

\* sequence s without its i-th element
RemoveAt(s, i) == SubSeq(s, 1, i - 1) \o SubSeq(s, i + 1, Len(s))

\* keys the user may press in the input field
Keys == {"Enter", "a"}

\* Math.random() in tenths: the draw r stands for r / 10
RandomDraws == 0..9

(***************************************************************************)
(* SecurityScanner                                                         *)
(***************************************************************************)
mockSafeResults == {GoogleCom, GithubCom, StackoverflowCom}

\* value checkSafeBrowsing resolves with, for the draw r of Math.random()
checkSafeBrowsing(domain, r) ==
    LET isSafe == (\E safe \in mockSafeResults : Includes(domain, safe)) \/ r > 3
    IN  [status  |-> IF isSafe THEN "safe" ELSE "unsafe",
         details |-> IF isSafe THEN NoThreatsText ELSE ThreatsFoundText]

grades == << <<"A","+">>, <<"A">>, <<"A","-">>, <<"B">>, <<"C">>, <<"F">> >>

\* value checkSSL resolves with, for the draw r of Math.random()
checkSSL(domain, r) ==
    LET grade == grades[((r * Len(grades)) \div 10) + 1]
    IN  [grade   |-> grade,
         status  |-> IF StartsWith(grade, <<"A">>) THEN "excellent"
                     ELSE IF grade = <<"B">> THEN "good"
                     ELSE IF grade = <<"C">> THEN "warning"
                     ELSE "poor",
         details |-> SslDetailsPrefix \o grade]

\* a handleScan invocation right after it called Promise.all
NewScan(domain) ==
    [domain             |-> domain,
     safeBrowsingTimer  |-> "pending",
     sslTimer           |-> "pending",
     safeBrowsingResult |-> Undefined,
     sslResult          |-> Undefined]

\* faulty variant of the definition after it: the join settles with the first check
JoinSettledRace(scan) ==
    scan.safeBrowsingTimer = "done" \/ scan.sslTimer = "done"

\* Promise.all([checkSafeBrowsing, checkSSL]) is fulfilled
JoinSettled(scan) ==
    scan.safeBrowsingTimer = "done" /\ scan.sslTimer = "done"

\* a continuation of handleScan is queued as a microtask: it runs before
\* the next timer or user event
ScannerContinuationReady ==
    \E i \in 1..Len(pendingScans) : JoinSettled(pendingScans[i])

\* faulty variant of the definition after it: a rejected attempt clears results
ScanRejectedClearing(toastCall, flag) ==
    /\ toasts' = <<toastCall>>
    /\ isScanning' = flag
    /\ results' = Null
    /\ UNCHANGED <<url, pendingScans, scannerCleared>>

\* the attempt ends before the try block's awaits: nothing but the toast
\* and the finally block's flag
ScanRejected(toastCall, flag) ==
    /\ toasts' = <<toastCall>>
    /\ isScanning' = flag
    /\ UNCHANGED <<url, results, pendingScans, scannerCleared>>

\* faulty variant of the definition after it: setResults(null) is left out
ScanStartedKeepingResults(domain) ==
    /\ Len(pendingScans) < MaxInFlight
    /\ isScanning' = TRUE
    /\ results' = results
    /\ scannerCleared' = results
    /\ pendingScans' = Append(pendingScans, NewScan(domain))
    /\ toasts' = <<>>
    /\ UNCHANGED url

\* setIsScanning(true); setResults(null); Promise.all([...])
ScanStarted(domain) ==
    /\ Len(pendingScans) < MaxInFlight
    /\ isScanning' = TRUE
    /\ results' = Null
    /\ scannerCleared' = results
    /\ pendingScans' = Append(pendingScans, NewScan(domain))
    /\ toasts' = <<>>
    /\ UNCHANGED url

\* the toast of the catch block
HandleScanCatch(error) ==
    Toast("Scan Failed",
          IF InstanceOfError(error) THEN error.message ELSE ScanFallbackText,
          "destructive")

\* handleScan up to its first await
handleScan ==
    IF Trim(url) = <<>>
    THEN ScanRejected(Toast("URL Required", UrlRequiredScanText, "destructive"), isScanning)
    ELSE LET validated == ScannerValidateUrl(Trim(url))
         IN  IF validated.threw
             THEN ScanRejected(HandleScanCatch(validated.error), FALSE)
             ELSE ScanStarted(validated.value)

\* onChange of the input
SetUrl(text) ==
    /\ mounted = "SecurityScanner"
    /\ ~ScannerContinuationReady
    /\ url' = text
    /\ toasts' = <<>>
    /\ UNCHANGED <<mounted, isScanning, results, pendingScans, scannerCleared, checkerVars>>

\* disabled attribute of the Scan Now button
ScanButtonDisabled == isScanning

\* onClick of the Scan Now button
ScanButtonClick ==
    /\ mounted = "SecurityScanner"
    /\ ~ScannerContinuationReady
    /\ ~ScanButtonDisabled
    /\ handleScan
    /\ UNCHANGED <<mounted, checkerVars>>

\* faulty variant of the definition after it: the flag is not tested
EnterStartsScanUnguarded(key) == key = "Enter"

\* the condition under which onKeyPress calls handleScan
EnterStartsScan(key) == key = "Enter" /\ ~isScanning

\* onKeyPress of the input
InputKeyPress(key) ==
    /\ mounted = "SecurityScanner"
    /\ ~ScannerContinuationReady
    /\ IF EnterStartsScan(key)
       THEN handleScan
       ELSE /\ toasts' = <<>>
            /\ UNCHANGED scannerVars
    /\ UNCHANGED <<mounted, checkerVars>>

\* the 1500 ms timer of checkSafeBrowsing fires
SafeBrowsingTimerFires(i, r) ==
    /\ mounted = "SecurityScanner"
    /\ ~ScannerContinuationReady
    /\ pendingScans[i].safeBrowsingTimer = "pending"
    /\ pendingScans' = [pendingScans EXCEPT
           ![i].safeBrowsingTimer = "done",
           ![i].safeBrowsingResult = checkSafeBrowsing(pendingScans[i].domain, r)]
    /\ toasts' = <<>>
    /\ UNCHANGED <<mounted, url, isScanning, results, scannerCleared, checkerVars>>

\* the 2000 ms timer of checkSSL fires; it was set after the 1500 ms timer
\* of the same invocation and so fires after it
SslTimerFires(i, r) ==
    /\ mounted = "SecurityScanner"
    /\ ~ScannerContinuationReady
    /\ pendingScans[i].sslTimer = "pending"
    /\ pendingScans[i].safeBrowsingTimer = "done"
    /\ pendingScans' = [pendingScans EXCEPT
           ![i].sslTimer = "done",
           ![i].sslResult = checkSSL(pendingScans[i].domain, r)]
    /\ toasts' = <<>>
    /\ UNCHANGED <<mounted, url, isScanning, results, scannerCleared, checkerVars>>

\* handleScan after Promise.all: setResults, toast and the finally block
HandleScanResumes(i) ==
    /\ mounted = "SecurityScanner"
    /\ JoinSettled(pendingScans[i])
    /\ results' = [safeBrowsing |-> pendingScans[i].safeBrowsingResult,
                   sslGrade     |-> pendingScans[i].sslResult]
    /\ toasts' = <<Toast("Scan Complete",
                         ScanCompletedPrefix \o pendingScans[i].domain, "default")>>
    /\ isScanning' = FALSE
    /\ pendingScans' = RemoveAt(pendingScans, i)
    /\ UNCHANGED <<mounted, url, scannerCleared, checkerVars>>

\* render guard of the result cards
ScannerShowsResults == results # Null /\ ~isScanning

(***************************************************************************)
(* WebsiteSecurityChecker                                                  *)
(***************************************************************************)
\* two of the four threatType values the endpoint is asked for and may
\* answer with: one without and one with underscores
ThreatTypes == {MALWARE, POTENTIALLY_HARMFUL_APPLICATION}

RECURSIVE SeqsUpTo(_, _)
\* the sequences over S of length at most n
SeqsUpTo(S, n) ==
    IF n = 0 THEN {<<>>}
    ELSE LET shorter == SeqsUpTo(S, n - 1)
         IN  shorter \cup {Append(s, x) : s \in shorter, x \in S}

ThreatMatch(threatType) == [threatType |-> threatType]

\* what response.json() can settle with: a rejection for a body that is not
\* JSON, an object without matches, an object with matches
ResponseBodies ==
    {[kind |-> "unparseable"], [kind |-> "object", hasMatches |-> FALSE]}
    \cup {[kind |-> "object", hasMatches |-> TRUE,
           matches |-> [i \in 1..Len(ts) |-> ThreatMatch(ts[i])]] :
          ts \in SeqsUpTo(ThreatTypes, MaxMatches)}

OkStatuses == {200}

ErrorStatuses == {403, 500}

\* responses fetch can resolve with
Responses ==
    {[ok |-> TRUE, status |-> s, body |-> b] : s \in OkStatuses, b \in ResponseBodies}
    \cup {[ok |-> FALSE, status |-> s, body |-> [kind |-> "unparseable"]] : s \in ErrorStatuses}

\* errors fetch can reject with: Chromium's and WebKit's network failure
FetchErrors ==
    {Error("TypeError", FailedToFetch), Error("TypeError", LoadFailed)}

\* faulty variant of the definition after it: the status is not tested
ResponseOkIgnored(response) == TRUE

\* response.ok as the handler reads it
ResponseOk(response) == response.ok

\* faulty variant of the definition after it: the message is not tested
IsConnectionErrorByType(error) == error.name = "TypeError"

\* the condition of the first branch of the catch block
IsConnectionError(error) ==
    error.name = "TypeError" /\ Includes(error.message, FetchWord)

\* the toast of the catch block
CheckSafetyCatch(error) ==
    IF IsConnectionError(error)
    THEN Toast("Connection Error", CorsHintText, "destructive")
    ELSE Toast("Check Failed",
               IF InstanceOfError(error) THEN error.message ELSE CheckFallbackText,
               "destructive")

\* faulty variant of the definition after it: the flag is not reset
CheckSafetyFinallyMissing(flag) == flag

\* isChecking after the finally block, given its value before
CheckSafetyFinally(flag) == FALSE

\* faulty variant of the definition after it: an empty list counts as matches
NoMatchesOnlyWhenAbsent(data) == ~data.hasMatches

\* !data.matches || data.matches.length === 0
NoMatches(data) == ~data.hasMatches \/ Len(data.matches) = 0

\* data.matches.map(match => match.threatType)
ThreatsOf(data) == [i \in 1..Len(data.matches) |-> data.matches[i].threatType]

\* threat.replace(/_/g, ' ')
ReplaceUnderscores(threat) ==
    [i \in 1..Len(threat) |-> IF threat[i] = "_" THEN " " ELSE threat[i]]

\* a checkSafety invocation right after it called fetch
NewCheck(validatedUrl) ==
    [requestUrl |-> validatedUrl, awaiting |-> "fetch", response |-> Undefined]

\* the attempt ends without a request
CheckRejected(toastCall, flag, logged) ==
    /\ toasts' = <<toastCall>>
    /\ isChecking' = flag
    /\ consoleError' = logged
    /\ UNCHANGED <<checkerUrl, result, pendingChecks, checkerCleared>>

\* setIsChecking(true); setResult(null); fetch(...)
CheckStarted(validatedUrl) ==
    /\ Len(pendingChecks) < MaxInFlight
    /\ isChecking' = TRUE
    /\ result' = Null
    /\ checkerCleared' = result
    /\ pendingChecks' = Append(pendingChecks, NewCheck(validatedUrl))
    /\ toasts' = <<>>
    /\ UNCHANGED <<checkerUrl, consoleError>>

\* checkSafety up to its first await
checkSafety ==
    IF Trim(checkerUrl) = <<>>
    THEN CheckRejected(Toast("URL Required", UrlRequiredCheckText, "destructive"),
                       isChecking, consoleError)
    ELSE LET validated == CheckerValidateUrl(Trim(checkerUrl))
         IN  IF validated.threw
             THEN CheckRejected(CheckSafetyCatch(validated.error),
                                CheckSafetyFinally(isChecking), validated.error)
             ELSE CheckStarted(validated.value)

\* the catch and finally blocks of an invocation that was awaiting
CheckFails(i, error) ==
    /\ consoleError' = error
    /\ toasts' = <<CheckSafetyCatch(error)>>
    /\ isChecking' = CheckSafetyFinally(isChecking)
    /\ pendingChecks' = RemoveAt(pendingChecks, i)
    /\ UNCHANGED <<checkerUrl, result, checkerCleared>>

\* disabled attribute of the input and of the Check Safety button
CheckerControlsDisabled == isChecking

\* onChange of the input
CheckerSetUrl(text) ==
    /\ mounted = "WebsiteSecurityChecker"
    /\ ~CheckerControlsDisabled
    /\ checkerUrl' = text
    /\ toasts' = <<>>
    /\ UNCHANGED <<mounted, scannerVars, isChecking, result, pendingChecks,
                   checkerCleared, consoleError>>

\* onClick of the Check Safety button
CheckButtonClick ==
    /\ mounted = "WebsiteSecurityChecker"
    /\ ~CheckerControlsDisabled
    /\ checkSafety
    /\ UNCHANGED <<mounted, scannerVars>>

\* handleKeyPress
handleKeyPress(key) ==
    /\ mounted = "WebsiteSecurityChecker"
    /\ ~CheckerControlsDisabled
    /\ IF key = "Enter" /\ ~isChecking
       THEN checkSafety
       ELSE /\ toasts' = <<>>
            /\ UNCHANGED checkerVars
    /\ UNCHANGED <<mounted, scannerVars>>

\* fetch rejects
FetchRejects(i, error) ==
    /\ mounted = "WebsiteSecurityChecker"
    /\ pendingChecks[i].awaiting = "fetch"
    /\ CheckFails(i, error)
    /\ UNCHANGED <<mounted, scannerVars>>

\* fetch resolves: the response.ok test, then response.json() is awaited
FetchResolves(i, response) ==
    /\ mounted = "WebsiteSecurityChecker"
    /\ pendingChecks[i].awaiting = "fetch"
    /\ IF ~ResponseOk(response)
       THEN CheckFails(i, Error("Error", ApiErrorPrefix \o Digits(response.status)))
       ELSE /\ pendingChecks' = [pendingChecks EXCEPT
                   ![i].awaiting = "json", ![i].response = response]
            /\ toasts' = <<>>
            /\ UNCHANGED <<checkerUrl, isChecking, result, checkerCleared, consoleError>>
    /\ UNCHANGED <<mounted, scannerVars>>

\* response.json() settles and checkSafety runs to its end
JsonSettles(i) ==
    /\ mounted = "WebsiteSecurityChecker"
    /\ pendingChecks[i].awaiting = "json"
    /\ LET data == pendingChecks[i].response.body
       IN  IF data.kind = "unparseable"
           THEN CheckFails(i, Error("SyntaxError", JsonSyntaxMessage))
           ELSE /\ IF NoMatches(data)
                   THEN /\ result' = [safe |-> TRUE]
                        /\ toasts' = <<Toast("Scan Complete", SafeToVisitText, "default")>>
                   ELSE /\ result' = [safe |-> FALSE, threats |-> ThreatsOf(data)]
                        /\ toasts' = <<Toast("Security Warning", ThreatsDetectedText,
                                             "destructive")>>
                /\ isChecking' = CheckSafetyFinally(isChecking)
                /\ pendingChecks' = RemoveAt(pendingChecks, i)
                /\ UNCHANGED <<checkerUrl, checkerCleared, consoleError>>
    /\ UNCHANGED <<mounted, scannerVars>>

\* render guard of the result card
CheckerShowsResult == result # Null /\ ~isChecking

\* the threat tags the result card renders
ThreatTags ==
    IF result = Null \/ result.safe THEN <<>>
    ELSE [i \in 1..Len(result.threats) |-> ReplaceUnderscores(result.threats[i])]

(***************************************************************************)
(* The page: one of the two components is mounted, with fresh state.       *)
(***************************************************************************)
Init ==
    /\ mounted \in Components
    /\ url = <<>>
    /\ isScanning = FALSE
    /\ results = Null
    /\ pendingScans = <<>>
    /\ scannerCleared = Null
    /\ checkerUrl = <<>>
    /\ isChecking = FALSE
    /\ result = Null
    /\ pendingChecks = <<>>
    /\ checkerCleared = Null
    /\ consoleError = Null
    /\ toasts = <<>>

Next ==
    \/ \E text \in Inputs : SetUrl(text)
    \/ ScanButtonClick
    \/ \E key \in Keys : InputKeyPress(key)
    \/ \E i \in 1..Len(pendingScans), r \in RandomDraws : SafeBrowsingTimerFires(i, r)
    \/ \E i \in 1..Len(pendingScans), r \in RandomDraws : SslTimerFires(i, r)
    \/ \E i \in 1..Len(pendingScans) : HandleScanResumes(i)
    \/ \E text \in Inputs : CheckerSetUrl(text)
    \/ CheckButtonClick
    \/ \E key \in Keys : handleKeyPress(key)
    \/ \E i \in 1..Len(pendingChecks), error \in FetchErrors : FetchRejects(i, error)
    \/ \E i \in 1..Len(pendingChecks), response \in Responses : FetchResolves(i, response)
    \/ \E i \in 1..Len(pendingChecks) : JsonSettles(i)

Spec == Init /\ [][Next]_vars

\* the timers of SecurityScanner fire and its continuation runs; the
\* request of WebsiteSecurityChecker and its body read settle
Completion ==
    \/ \E i \in 1..Len(pendingScans), r \in RandomDraws : SafeBrowsingTimerFires(i, r)
    \/ \E i \in 1..Len(pendingScans), r \in RandomDraws : SslTimerFires(i, r)
    \/ \E i \in 1..Len(pendingScans) : HandleScanResumes(i)
    \/ \E i \in 1..Len(pendingChecks), error \in FetchErrors : FetchRejects(i, error)
    \/ \E i \in 1..Len(pendingChecks), response \in Responses : FetchResolves(i, response)
    \/ \E i \in 1..Len(pendingChecks) : JsonSettles(i)

FairSpec == Spec /\ WF_vars(Completion)


(***************************************************************************)
(* Properties                                                              *)
(***************************************************************************)
\* expected values of the properties below
\* 'example.com'
ExampleHost ==
    <<"e","x","a","m","p","l","e",".","c","o","m">>

\* 'https://example.com/'
ExampleHref ==
    <<"h","t","t","p","s",":","/","/","e","x","a","m","p","l","e",".","c","o","m","/">>

\* 'MALWARE'
MalwareTag ==
    <<"M","A","L","W","A","R","E">>

\* '500'
Status500 ==
    <<"5","0","0">>

\* 'POTENTIALLY HARMFUL APPLICATION'
HarmfulApplicationTag ==
    <<"P","O","T","E","N","T","I","A","L","L","Y"," ","H","A","R","M","F","U","L"," ","A","P","P","L","I","C","A","T","I","O","N">>

\* the string validateUrl hands to new URL, as the contract states it
Prefixed(text) ==
    IF StartsWith(text, HttpPrefix) \/ StartsWith(text, HttpsPrefix)
    THEN text
    ELSE HttpsPrefix \o text

\* the step is a click or an Enter press that calls handleScan
ScanAttempt ==
    /\ mounted = "SecurityScanner"
    /\ ~isScanning
    /\ ScanButtonClick \/ InputKeyPress("Enter")

\* the step is a click or an Enter press that calls checkSafety
CheckAttempt ==
    /\ mounted = "WebsiteSecurityChecker"
    /\ ~isChecking
    /\ CheckButtonClick \/ handleKeyPress("Enter")

\* C1: in SecurityScanner results is non-null, and a result card is shown,
\* only when no invocation of handleScan has a check whose timer is still
\* pending, and results always holds both the safeBrowsing and the sslGrade
\* value of a finished check.
C1_ResultsOnlyAfterBothChecks ==
    (results # Null) =>
        /\ \A i \in 1..Len(pendingScans) :
               /\ pendingScans[i].safeBrowsingTimer = "done"
               /\ pendingScans[i].sslTimer = "done"
        /\ results.safeBrowsing # Undefined
        /\ results.sslGrade # Undefined
        /\ results.safeBrowsing.status \in {"safe", "unsafe"}
        /\ results.sslGrade.status \in {"excellent", "good", "warning", "poor"}

\* a scan ended and both cards are shown
C1_Witness ==
    /\ ScannerShowsResults
    /\ results.safeBrowsing.status = "unsafe"
    /\ results.sslGrade.grade = <<"B">>

\* C2: in either component at most one handler invocation is in flight:
\* there is never a second set of timers or a second request.
C2_OneScanInFlight ==
    /\ Len(pendingScans) <= 1
    /\ Len(pendingChecks) <= 1
    /\ isScanning <=> Len(pendingScans) = 1
    /\ isChecking <=> Len(pendingChecks) = 1

\* a scan is in flight and the user has typed another text meanwhile
C2_Witness ==
    /\ isScanning
    /\ Len(pendingScans) = 1
    /\ pendingScans[1].safeBrowsingTimer = "done"
    /\ url = In_google
    /\ pendingScans[1].domain = ExampleHost

\* the latest step showed a failure notification
FailureShown ==
    /\ toasts # <<>>
    /\ toasts[1].title \in {"URL Required", "Scan Failed", "Check Failed", "Connection Error"}

\* C3: when timers and requests complete, a scanning flag that is true
\* becomes false again, and right after any failure notification both flags
\* are false and the controls are enabled.
C3_ScanningEnds ==
    /\ isScanning ~> ~isScanning
    /\ isChecking ~> ~isChecking
    /\ [](FailureShown => (~isScanning /\ ~isChecking
                           /\ ~ScanButtonDisabled /\ ~CheckerControlsDisabled))

\* a check failed on a non-2xx response and the component is idle again
C3_Witness ==
    /\ toasts # <<>>
    /\ toasts[1].title = "Check Failed"
    /\ consoleError # Null
    /\ StartsWith(consoleError.message, ApiErrorPrefix)
    /\ ~isChecking
    /\ pendingChecks = <<>>

\* C4: a step in which fetch resolves with a non-2xx response ends the check
\* with the "Check Failed" notification carrying "API Error: <status>", the
\* flag false and result null.
C4_NonOkResponseLeavesNull ==
    [][\A i \in 1..Len(pendingChecks) : \A response \in Responses :
          (~response.ok /\ FetchResolves(i, response)) =>
              /\ result' = Null
              /\ ~isChecking'
              /\ pendingChecks' = <<>>
              /\ toasts' = <<Toast("Check Failed",
                                   ApiErrorPrefix \o Digits(response.status),
                                   "destructive")>>]_vars

\* a 500 response ended a check that had replaced an earlier verdict
C4_Witness ==
    /\ toasts = <<Toast("Check Failed", ApiErrorPrefix \o Status500, "destructive")>>
    /\ result = Null
    /\ checkerCleared # Null
    /\ ~isChecking

\* the tag the result card shows for a threatType
ExpectedTag(threatType) ==
    IF threatType = MALWARE THEN MalwareTag ELSE HarmfulApplicationTag

\* C5: when the body of a 2xx response has been read, the verdict is unsafe
\* exactly when the body holds a non-empty matches list; a parsed body
\* without matches or with an empty list gives {safe: true} and no tags, and
\* a non-empty list gives safe = false with the threatType of each match in
\* response order, shown with every underscore replaced by a space.
C5_VerdictFromMatches ==
    [][\A i \in 1..Len(pendingChecks) :
          JsonSettles(i) =>
              LET data == pendingChecks[i].response.body
                  nonEmpty == /\ data.kind = "object"
                              /\ data.hasMatches
                              /\ Len(data.matches) > 0
              IN  /\ (result' # Null /\ ~result'.safe) <=> nonEmpty
                  /\ (data.kind = "object" /\ ~nonEmpty) =>
                         /\ result' = [safe |-> TRUE]
                         /\ ThreatTags' = <<>>
                  /\ nonEmpty =>
                         /\ result'.threats =
                                [k \in 1..Len(data.matches) |-> data.matches[k].threatType]
                         /\ ThreatTags' =
                                [k \in 1..Len(data.matches) |->
                                    ExpectedTag(data.matches[k].threatType)]]_vars

\* an unsafe verdict with two threats is shown
C5_Witness ==
    /\ CheckerShowsResult
    /\ ~result.safe
    /\ result.threats = <<POTENTIALLY_HARMFUL_APPLICATION, MALWARE>>
    /\ ThreatTags = <<HarmfulApplicationTag, MalwareTag>>

\* the domain named by a "Scan Complete" notification of SecurityScanner
CompletedDomain ==
    SubSeq(toasts[1].description, Len(ScanCompletedPrefix) + 1, Len(toasts[1].description))

\* C6: while a scan of SecurityScanner is in flight results is null and no
\* card is shown, and when a scan has completed results is exactly a pair
\* that checkSafeBrowsing and checkSSL produce for the domain of that scan.
C6_ScanReplacesResults ==
    /\ (pendingScans # <<>>) => (results = Null /\ ~ScannerShowsResults)
    /\ (mounted = "SecurityScanner" /\ toasts # <<>> /\ toasts[1].title = "Scan Complete") =>
           /\ results # Null
           /\ \E r \in RandomDraws :
                  results.safeBrowsing = checkSafeBrowsing(CompletedDomain, r)
           /\ \E r \in RandomDraws :
                  results.sslGrade = checkSSL(CompletedDomain, r)

\* a second scan completed with a pair that differs from the first in both fields
C6_Witness ==
    /\ scannerCleared # Null
    /\ ScannerShowsResults
    /\ scannerCleared.safeBrowsing.status = "unsafe"
    /\ results.safeBrowsing.status = "safe"
    /\ results.sslGrade # scannerCleared.sslGrade
    /\ Includes(CompletedDomain, GoogleCom)

\* the trimmed text is not empty and new URL throws on it
Unparseable(text) ==
    /\ Trim(text) # <<>>
    /\ ~ParseURL(Prefixed(Trim(text))).ok

\* C7: an attempt whose trimmed, prefixed input new URL rejects shows one
\* notification whose description is "Please enter a valid URL", leaves the
\* scanning flag false and starts no timer and no request.
C7_InvalidUrlIsTerminal ==
    [][/\ (ScanAttempt /\ Unparseable(url)) =>
              /\ toasts' = <<Toast("Scan Failed", InvalidUrlMessage, "destructive")>>
              /\ ~isScanning'
              /\ pendingScans' = pendingScans
       /\ (CheckAttempt /\ Unparseable(checkerUrl)) =>
              /\ toasts' = <<Toast("Check Failed", InvalidUrlMessage, "destructive")>>
              /\ ~isChecking'
              /\ pendingChecks' = pendingChecks]_vars

\* "not a url" was rejected by SecurityScanner
C7_Witness ==
    /\ url = In_notaurl
    /\ toasts = <<Toast("Scan Failed", InvalidUrlMessage, "destructive")>>
    /\ ~isScanning
    /\ pendingScans = <<>>

\* C8: a scan that starts works on the hostname (SecurityScanner) or the
\* href (WebsiteSecurityChecker) of the URL parsed from the trimmed input,
\* prefixed with "https://" unless it starts with "http://" or "https://";
\* "example.com" gives "example.com" and "https://example.com/".
C8_Normalization ==
    [][/\ (Len(pendingScans') > Len(pendingScans)) =>
              LET started == pendingScans'[Len(pendingScans')]
              IN  /\ ParseURL(Prefixed(Trim(url))).ok
                  /\ started.domain = ParseURL(Prefixed(Trim(url))).hostname
                  /\ (url = In_example) => (started.domain = ExampleHost)
                  /\ (url = In_http) => (started.domain = ExampleHost)
       /\ (Len(pendingChecks') > Len(pendingChecks)) =>
              LET started == pendingChecks'[Len(pendingChecks')]
              IN  /\ ParseURL(Prefixed(Trim(checkerUrl))).ok
                  /\ started.requestUrl = Href(ParseURL(Prefixed(Trim(checkerUrl))))
                  /\ (checkerUrl = In_example) => (started.requestUrl = ExampleHref)
                  /\ (checkerUrl = In_google) => (started.requestUrl = In_google)]_vars

\* the request for the input "example.com" is in flight
C8_Witness ==
    /\ checkerUrl = In_example
    /\ Len(pendingChecks) = 1
    /\ pendingChecks[1].requestUrl = ExampleHref

\* the step ends a checkSafety invocation in its catch block
CheckFailureStep ==
    \/ CheckAttempt /\ Unparseable(checkerUrl)
    \/ /\ mounted = "WebsiteSecurityChecker"
       /\ Len(pendingChecks') < Len(pendingChecks)
       /\ result' = Null

C10_RejectedAttemptKeepsResult ==
    [][/\ (ScanAttempt /\ (Trim(url) = <<>> \/ Unparseable(url))) =>
              /\ results' = results
              /\ url' = url
              /\ ScannerShowsResults' = ScannerShowsResults
              /\ Len(toasts') = 1
       /\ (CheckAttempt /\ (Trim(checkerUrl) = <<>> \/ Unparseable(checkerUrl))) =>
              /\ result' = result
              /\ checkerUrl' = checkerUrl
              /\ CheckerShowsResult' = CheckerShowsResult
              /\ Len(toasts') = 1]_vars

\* an empty input was rejected while the cards of an earlier scan stay shown
C10_Witness ==
    /\ toasts = <<Toast("URL Required", UrlRequiredScanText, "destructive")>>
    /\ Trim(url) = <<>>
    /\ ScannerShowsResults
=============================================================================
